---- MODULE Spec2Model ----
(***************************************************************************)
(* Model of session/replica_session.go: the ReplicaManager session pool    *)
(* (GetReplica, Close, ReplicaCount under one sync.RWMutex) and the typed  *)
(* operation methods of ReplicaSession over the generic call primitive.    *)
(***************************************************************************)
EXTENDS Integers, Sequences, FiniteSets, TLC

\* ---------------------------------------------------------------- bounds
NumThreads == 2
NumAddrs == 2
MaxPayload == 2

Threads == 1..NumThreads
Addrs == 1..NumAddrs

\* "no session" / "no thread" / nil
NoSession == 0
NoThread == 0

VARIABLES
    replicas,     \* rm.replicas: address -> session (NoSession when the key is absent)
    sessions,     \* every ReplicaSession constructed so far: <<[addr, state, failed]>>, id = index
    announced,    \* thread that has announced itself as writer in rm.Lock(), or NoThread
    writer,       \* thread holding rm.Lock(), or NoThread
    readers,      \* threads holding rm.RLock()
    pc,           \* position of each thread inside the pool operation it runs
    arg,          \* addr argument of the thread's GetReplica call
    ok,           \* GetReplica: result of the map lookup at line 157
    todo,         \* Close: sessions the range loop has not visited yet
    cur,          \* Close: session whose completion signal the loop is receiving from
    ret,          \* value the thread's call is returning (set at its return statement)
    returned,     \* history: address -> set of sessions GetReplica has returned for it
    closeCalled,  \* history: some ReplicaManager.Close call has begun
    afterClose,   \* history: the thread's current GetReplica call began after a Close call began
    fpc,          \* position of the caller inside a typed operation method
    fop,          \* the typed method invoked
    fgpid,        \* its gpid argument
    freq,         \* its request argument(s)
    calls,        \* generic calls issued by the current invocation: <<[gpid, args, tag]>>
    cres,         \* (result, err) the generic call came back with
    fret          \* what the typed method returned

poolVars == <<replicas, sessions, announced, writer, readers, pc, arg, ok, todo, cur, ret,
              returned, closeCalled, afterClose>>

facadeVars == <<fpc, fop, fgpid, freq, calls, cres, fret>>

vars == <<poolVars, facadeVars>>

\* ------------------------------------------------------------ pool helpers
NoRet == [op |-> "none", val |-> 0]

\* newReplicaSession(addr): a fresh session object for addr, not yet closed
newReplicaSession(addr) == [addr |-> addr, state |-> "open", failed |-> FALSE]

\* len(rm.replicas)
MapLen(m) == Cardinality({a \in Addrs : m[a] # NoSession})

\* the sessions the map holds (range rm.replicas)
MapValues(m) == {m[a] : a \in {b \in Addrs : m[b] # NoSession}}

\* number of sessions ever constructed for an address
Constructed(a) == Cardinality({i \in 1..Len(sessions) : sessions[i].addr = a})

\* sync.RWMutex.Lock(), first half: the caller becomes the announced writer when no
\* other writer is announced or holding; from then on new RLock() calls block
CanAnnounce == announced = NoThread

\* sync.RWMutex.Lock(), second half: the announced writer holds the lock once the
\* readers that were already inside have left
Drained == readers = {}

\* sync.RWMutex.RLock() succeeds when no writer is announced or holding
CanRLock == announced = NoThread

\* NewReplicaManager(): an empty map, an unlocked mutex; no thread is in a call
PoolInit ==
    /\ replicas = [a \in Addrs |-> NoSession]
    /\ sessions = <<>>
    /\ announced = NoThread
    /\ writer = NoThread
    /\ readers = {}
    /\ pc = [t \in Threads |-> "idle"]
    /\ arg = [t \in Threads |-> 0]
    /\ ok = [t \in Threads |-> FALSE]
    /\ todo = [t \in Threads |-> {}]
    /\ cur = [t \in Threads |-> NoSession]
    /\ ret = [t \in Threads |-> NoRet]
    /\ returned = [a \in Addrs |-> {}]
    /\ closeCalled = FALSE
    /\ afterClose = [t \in Threads |-> FALSE]

\* ------------------------------------------------------------- GetReplica
\* a thread calls rm.GetReplica(addr) and reaches rm.Lock()
GetReplicaCall(t, addr) ==
    /\ pc[t] = "idle"
    /\ pc' = [pc EXCEPT ![t] = "gr_lock"]
    /\ arg' = [arg EXCEPT ![t] = addr]
    /\ afterClose' = [afterClose EXCEPT ![t] = closeCalled]
    /\ UNCHANGED <<replicas, sessions, announced, writer, readers, ok, todo, cur,
                   returned, closeCalled>>
    /\ UNCHANGED <<ret, facadeVars>>

\* rm.Lock(): the thread uses RLock() where the code says Lock()
GetReplicaLock_Shared(t) ==
    /\ pc[t] = "gr_lock"
    /\ CanRLock
    /\ readers' = readers \cup {t}
    /\ pc' = [pc EXCEPT ![t] = "gr_check"]
    /\ UNCHANGED <<replicas, sessions, announced, writer, arg, ok, todo, cur, ret,
                   returned, closeCalled, afterClose>>
    /\ UNCHANGED facadeVars

\* rm.Lock(): the thread becomes the announced writer
GetReplicaLock(t) ==
    /\ pc[t] = "gr_lock"
    /\ CanAnnounce
    /\ announced' = t
    /\ pc' = [pc EXCEPT ![t] = "gr_drain"]
    /\ UNCHANGED <<replicas, sessions, writer, readers, arg, ok, todo, cur, ret,
                   returned, closeCalled, afterClose>>
    /\ UNCHANGED facadeVars

\* rm.Lock() returns: the thread holds the lock exclusively
GetReplicaLocked(t) ==
    /\ pc[t] = "gr_drain"
    /\ Drained
    /\ writer' = t
    /\ pc' = [pc EXCEPT ![t] = "gr_check"]
    /\ UNCHANGED <<replicas, sessions, announced, readers, arg, ok, todo, cur, ret,
                   returned, closeCalled, afterClose>>
    /\ UNCHANGED facadeVars

\* _, ok := rm.replicas[addr]
GetReplicaCheck(t) ==
    /\ pc[t] = "gr_check"
    /\ ok' = [ok EXCEPT ![t] = (replicas[arg[t]] # NoSession)]
    /\ pc' = [pc EXCEPT ![t] = "gr_insert"]
    /\ UNCHANGED <<replicas, sessions, announced, writer, readers, arg, todo, cur, ret,
                   returned, closeCalled, afterClose>>
    /\ UNCHANGED facadeVars

\* the insert without the `if !ok` test: a session is constructed on every call
GetReplicaInsert_Always(t) ==
    /\ pc[t] = "gr_insert"
    /\ sessions' = Append(sessions, newReplicaSession(arg[t]))
    /\ replicas' = [replicas EXCEPT ![arg[t]] = Len(sessions) + 1]
    /\ pc' = [pc EXCEPT ![t] = "gr_ret"]
    /\ UNCHANGED <<announced, writer, readers, arg, ok, todo, cur, ret, returned,
                   closeCalled, afterClose>>
    /\ UNCHANGED facadeVars

\* if !ok { rm.replicas[addr] = newReplicaSession(addr) }
GetReplicaInsert(t) ==
    /\ pc[t] = "gr_insert"
    /\ IF ~ok[t]
         THEN /\ sessions' = Append(sessions, newReplicaSession(arg[t]))
              /\ replicas' = [replicas EXCEPT ![arg[t]] = Len(sessions) + 1]
         ELSE UNCHANGED <<sessions, replicas>>
    /\ pc' = [pc EXCEPT ![t] = "gr_ret"]
    /\ UNCHANGED <<announced, writer, readers, arg, ok, todo, cur, ret, returned,
                   closeCalled, afterClose>>
    /\ UNCHANGED facadeVars

\* return rm.replicas[addr]: the return value is read while the lock is held
GetReplicaReturn(t) ==
    /\ pc[t] = "gr_ret"
    /\ ret' = [ret EXCEPT ![t] = [op |-> "GetReplica", val |-> replicas[arg[t]]]]
    /\ returned' = [returned EXCEPT ![arg[t]] = @ \cup {replicas[arg[t]]}]
    /\ pc' = [pc EXCEPT ![t] = "gr_unlock"]
    /\ UNCHANGED <<replicas, sessions, announced, writer, readers, arg, ok, todo, cur,
                   closeCalled, afterClose>>
    /\ UNCHANGED facadeVars

\* the deferred rm.Unlock(); the call is over
GetReplicaUnlock(t) ==
    /\ pc[t] = "gr_unlock"
    /\ writer' = NoThread
    /\ announced' = NoThread
    /\ pc' = [pc EXCEPT ![t] = "idle"]
    /\ arg' = [arg EXCEPT ![t] = 0]
    /\ ok' = [ok EXCEPT ![t] = FALSE]
    /\ afterClose' = [afterClose EXCEPT ![t] = FALSE]
    /\ ret' = [ret EXCEPT ![t] = NoRet]
    /\ UNCHANGED <<replicas, sessions, readers, todo, cur, returned, closeCalled>>
    /\ UNCHANGED facadeVars

\* ------------------------------------------------------------------ Close
\* a thread calls rm.Close() and reaches rm.Lock()
CloseCall(t) ==
    /\ pc[t] = "idle"
    /\ pc' = [pc EXCEPT ![t] = "cl_lock"]
    /\ closeCalled' = TRUE
    /\ UNCHANGED <<replicas, sessions, announced, writer, readers, arg, ok, todo, cur,
                   returned, afterClose>>
    /\ UNCHANGED <<ret, facadeVars>>

\* Close takes RLock() where the code says Lock() and starts its loop
CloseLock_Shared(t) ==
    /\ pc[t] = "cl_lock"
    /\ CanRLock
    /\ readers' = readers \cup {t}
    /\ todo' = [todo EXCEPT ![t] = MapValues(replicas)]
    /\ pc' = [pc EXCEPT ![t] = "cl_loop"]
    /\ UNCHANGED <<replicas, sessions, announced, writer, arg, ok, cur, ret, returned,
                   closeCalled, afterClose>>
    /\ UNCHANGED facadeVars

\* rm.Lock(): the thread becomes the announced writer
CloseLock(t) ==
    /\ pc[t] = "cl_lock"
    /\ CanAnnounce
    /\ announced' = t
    /\ pc' = [pc EXCEPT ![t] = "cl_drain"]
    /\ UNCHANGED <<replicas, sessions, writer, readers, arg, ok, todo, cur, ret,
                   returned, closeCalled, afterClose>>
    /\ UNCHANGED facadeVars

\* Close takes the lock only to read the map's entries and releases it before it
\* closes them
CloseLocked_Unlocks(t) ==
    /\ pc[t] = "cl_drain"
    /\ Drained
    /\ writer' = NoThread
    /\ announced' = NoThread
    /\ todo' = [todo EXCEPT ![t] = MapValues(replicas)]
    /\ pc' = [pc EXCEPT ![t] = "cl_loop"]
    /\ UNCHANGED <<replicas, sessions, readers, arg, ok, cur, ret, returned,
                   closeCalled, afterClose>>
    /\ UNCHANGED facadeVars

\* rm.Lock() returns; the range loop starts over the map's current entries
CloseLocked(t) ==
    /\ pc[t] = "cl_drain"
    /\ Drained
    /\ writer' = t
    /\ todo' = [todo EXCEPT ![t] = MapValues(replicas)]
    /\ pc' = [pc EXCEPT ![t] = "cl_loop"]
    /\ UNCHANGED <<replicas, sessions, announced, readers, arg, ok, cur, ret, returned,
                   closeCalled, afterClose>>
    /\ UNCHANGED facadeVars

\* session-level close(): starts the close of an open session and hands back its
\* completion signal; a session already closing or closed keeps its state
SessionClose(ss, r) ==
    [ss EXCEPT ![r].state = IF @ = "open" THEN "closing" ELSE @]

\* the completion signal of session r has fired
SignalFired(r) == sessions[r].state = "closed"

\* next iteration of `for _, r := range rm.replicas`: r.Close() is called and the
\* loop blocks receiving from the returned channel (Go's map order is unspecified)
CloseInitiate(t) ==
    /\ pc[t] = "cl_loop"
    /\ \E r \in todo[t] :
         /\ sessions' = SessionClose(sessions, r)
         /\ cur' = [cur EXCEPT ![t] = r]
    /\ pc' = [pc EXCEPT ![t] = "cl_wait"]
    /\ UNCHANGED <<replicas, announced, writer, readers, arg, ok, todo, ret, returned,
                   closeCalled, afterClose>>
    /\ UNCHANGED facadeVars

\* the loop goes on without receiving from the channel r.Close() returned
CloseWait_NoReceive(t) ==
    /\ pc[t] = "cl_wait"
    /\ todo' = [todo EXCEPT ![t] = @ \ {cur[t]}]
    /\ cur' = [cur EXCEPT ![t] = NoSession]
    /\ pc' = [pc EXCEPT ![t] = "cl_loop"]
    /\ UNCHANGED <<replicas, sessions, announced, writer, readers, arg, ok, ret,
                   returned, closeCalled, afterClose>>
    /\ UNCHANGED facadeVars

\* the receive `<-r.Close()` completes once the session's signal has fired
CloseWait(t) ==
    /\ pc[t] = "cl_wait"
    /\ SignalFired(cur[t])
    /\ todo' = [todo EXCEPT ![t] = @ \ {cur[t]}]
    /\ cur' = [cur EXCEPT ![t] = NoSession]
    /\ pc' = [pc EXCEPT ![t] = "cl_loop"]
    /\ UNCHANGED <<replicas, sessions, announced, writer, readers, arg, ok, ret,
                   returned, closeCalled, afterClose>>
    /\ UNCHANGED facadeVars

\* Close empties the map once the loop is over
CloseReturn_ClearsMap(t) ==
    /\ pc[t] = "cl_loop"
    /\ todo[t] = {}
    /\ replicas' = [a \in Addrs |-> NoSession]
    /\ ret' = [ret EXCEPT ![t] = [op |-> "Close", val |-> 0]]
    /\ pc' = [pc EXCEPT ![t] = "cl_unlock"]
    /\ UNCHANGED <<sessions, announced, writer, readers, arg, ok, todo, cur,
                   returned, closeCalled, afterClose>>
    /\ UNCHANGED facadeVars

\* the loop is over: return nil
CloseReturn(t) ==
    /\ pc[t] = "cl_loop"
    /\ todo[t] = {}
    /\ ret' = [ret EXCEPT ![t] = [op |-> "Close", val |-> 0]]
    /\ pc' = [pc EXCEPT ![t] = "cl_unlock"]
    /\ UNCHANGED <<replicas, sessions, announced, writer, readers, arg, ok, todo, cur,
                   returned, closeCalled, afterClose>>
    /\ UNCHANGED facadeVars

\* Close returns to its caller with the lock still held
CloseUnlock_Missing(t) ==
    /\ pc[t] = "cl_unlock"
    /\ pc' = [pc EXCEPT ![t] = "idle"]
    /\ ret' = [ret EXCEPT ![t] = NoRet]
    /\ UNCHANGED <<replicas, sessions, announced, writer, readers, arg, ok, todo, cur,
                   returned, closeCalled, afterClose>>
    /\ UNCHANGED facadeVars

\* the deferred rm.Unlock(); the call is over
CloseUnlock(t) ==
    /\ pc[t] = "cl_unlock"
    /\ writer' = NoThread
    /\ announced' = NoThread
    /\ pc' = [pc EXCEPT ![t] = "idle"]
    /\ ret' = [ret EXCEPT ![t] = NoRet]
    /\ UNCHANGED <<replicas, sessions, readers, arg, ok, todo, cur, returned,
                   closeCalled, afterClose>>
    /\ UNCHANGED facadeVars

\* the transport finishes closing session r, with or without a failure, and fires its
\* completion signal
SessionCloseDone(r) ==
    /\ r \in 1..Len(sessions)
    /\ sessions[r].state = "closing"
    /\ \E f \in BOOLEAN :
         sessions' = [sessions EXCEPT ![r].state = "closed", ![r].failed = f]
    /\ UNCHANGED <<replicas, announced, writer, readers, pc, arg, ok, todo, cur, ret,
                   returned, closeCalled, afterClose>>
    /\ UNCHANGED facadeVars

\* ----------------------------------------------------------- ReplicaCount
\* a thread calls rm.ReplicaCount() and reaches rm.RLock()
ReplicaCountCall(t) ==
    /\ pc[t] = "idle"
    /\ pc' = [pc EXCEPT ![t] = "rc_lock"]
    /\ UNCHANGED <<replicas, sessions, announced, writer, readers, arg, ok, todo, cur,
                   returned, closeCalled, afterClose>>
    /\ UNCHANGED <<ret, facadeVars>>

\* the thread goes on to read the map without taking the read lock
ReplicaCountLock_NoLock(t) ==
    /\ pc[t] = "rc_lock"
    /\ pc' = [pc EXCEPT ![t] = "rc_read"]
    /\ UNCHANGED <<replicas, sessions, announced, writer, readers, arg, ok, todo, cur,
                   ret, returned, closeCalled, afterClose>>
    /\ UNCHANGED facadeVars

\* rm.RLock() returns
ReplicaCountLock(t) ==
    /\ pc[t] = "rc_lock"
    /\ CanRLock
    /\ readers' = readers \cup {t}
    /\ pc' = [pc EXCEPT ![t] = "rc_read"]
    /\ UNCHANGED <<replicas, sessions, announced, writer, arg, ok, todo, cur, ret,
                   returned, closeCalled, afterClose>>
    /\ UNCHANGED facadeVars

\* return len(rm.replicas): the length is read while the read lock is held
ReplicaCountReturn(t) ==
    /\ pc[t] = "rc_read"
    /\ ret' = [ret EXCEPT ![t] = [op |-> "ReplicaCount", val |-> MapLen(replicas)]]
    /\ pc' = [pc EXCEPT ![t] = "rc_unlock"]
    /\ UNCHANGED <<replicas, sessions, announced, writer, readers, arg, ok, todo, cur,
                   returned, closeCalled, afterClose>>
    /\ UNCHANGED facadeVars

\* the deferred rm.RUnlock(); the call is over
ReplicaCountUnlock(t) ==
    /\ pc[t] = "rc_unlock"
    /\ readers' = readers \ {t}
    /\ pc' = [pc EXCEPT ![t] = "idle"]
    /\ ret' = [ret EXCEPT ![t] = NoRet]
    /\ UNCHANGED <<replicas, sessions, announced, writer, arg, ok, todo, cur,
                   returned, closeCalled, afterClose>>
    /\ UNCHANGED facadeVars

\* ------------------------------------------------- ReplicaSession methods
\* a nil response pointer, a nil error, an untyped nil result
Nil == 0
NoErr == "nil"
NoType == "nil"

Ops == {"Get", "Put", "Del", "MultiGet", "MultiSet", "MultiDelete", "TTL",
        "GetScanner", "Scan", "ClearScanner"}

\* base.Gpid values: (table id, partition index)
Gpids == {<<1, 0>>, <<1, 1>>}

\* opaque keys, values and request bodies
Payloads == 1..MaxPayload

\* the arguments a typed method takes after ctx and gpid: Put takes key and value,
\* every other method one key, request or context id
Requests(op) ==
    IF op = "Put" THEN {<<k, v>> : k \in Payloads, v \in Payloads}
    ELSE {<<x>> : x \in Payloads}

\* the tags with MultiSet named after the method instead of the wire operation
Tag_MultiSetNamed(op) ==
    CASE op = "Get"          -> "RPC_RRDB_RRDB_GET"
      [] op = "Put"          -> "RPC_RRDB_RRDB_PUT"
      [] op = "Del"          -> "RPC_RRDB_RRDB_REMOVE"
      [] op = "MultiGet"     -> "RPC_RRDB_RRDB_MULTI_GET"
      [] op = "MultiSet"     -> "RPC_RRDB_RRDB_MULTI_SET"
      [] op = "MultiDelete"  -> "RPC_RRDB_RRDB_MULTI_REMOVE"
      [] op = "TTL"          -> "RPC_RRDB_RRDB_TTL"
      [] op = "GetScanner"   -> "RPC_RRDB_RRDB_GET_SCANNER"
      [] op = "Scan"         -> "RPC_RRDB_RRDB_SCAN"
      [] op = "ClearScanner" -> "RPC_RRDB_RRDB_CLEAR_SCANNER"

\* the operation name each method passes to callWithGpid
Tag(op) ==
    CASE op = "Get"          -> "RPC_RRDB_RRDB_GET"
      [] op = "Put"          -> "RPC_RRDB_RRDB_PUT"
      [] op = "Del"          -> "RPC_RRDB_RRDB_REMOVE"
      [] op = "MultiGet"     -> "RPC_RRDB_RRDB_MULTI_GET"
      [] op = "MultiSet"     -> "RPC_RRDB_RRDB_MULTI_PUT"
      [] op = "MultiDelete"  -> "RPC_RRDB_RRDB_MULTI_REMOVE"
      [] op = "TTL"          -> "RPC_RRDB_RRDB_TTL"
      [] op = "GetScanner"   -> "RPC_RRDB_RRDB_GET_SCANNER"
      [] op = "Scan"         -> "RPC_RRDB_RRDB_SCAN"
      [] op = "ClearScanner" -> "RPC_RRDB_RRDB_CLEAR_SCANNER"

\* the args struct each method builds
ArgsType(op) ==
    CASE op = "Get"          -> "RrdbGetArgs"
      [] op = "Put"          -> "RrdbPutArgs"
      [] op = "Del"          -> "RrdbRemoveArgs"
      [] op = "MultiGet"     -> "RrdbMultiGetArgs"
      [] op = "MultiSet"     -> "RrdbMultiPutArgs"
      [] op = "MultiDelete"  -> "RrdbMultiRemoveArgs"
      [] op = "TTL"          -> "RrdbTTLArgs"
      [] op = "GetScanner"   -> "RrdbGetScannerArgs"
      [] op = "Scan"         -> "RrdbScanArgs"
      [] op = "ClearScanner" -> "RrdbClearScannerArgs"

\* the result struct each method type-asserts the call's result to
ResultType(op) ==
    CASE op = "Get"          -> "RrdbGetResult"
      [] op = "Put"          -> "RrdbPutResult"
      [] op = "Del"          -> "RrdbRemoveResult"
      [] op = "MultiGet"     -> "RrdbMultiGetResult"
      [] op = "MultiSet"     -> "RrdbMultiPutResult"
      [] op = "MultiDelete"  -> "RrdbMultiRemoveResult"
      [] op = "TTL"          -> "RrdbTTLResult"
      [] op = "GetScanner"   -> "RrdbGetScannerResult"
      [] op = "Scan"         -> "RrdbScanResult"
      [] op = "ClearScanner" -> "RrdbClearScannerResult"

ResultTypes == {ResultType(op) : op \in Ops}

\* args := &rrdb.Rrdb<Op>Args{...}: the envelope holds the caller's request as given
BuildArgs(op, req) == [type |-> ArgsType(op), payload |-> req]

\* errors the generic call primitive can report
CallErrors == {"timeout", "canceled", "connection"}

\* what callWithGpid can come back with: an error and no result, or a result struct of
\* some type whose Success field is set to a response or left nil
CallOutcomes ==
    [err : CallErrors, rtype : {NoType}, success : {Nil}]
    \cup [err : {NoErr}, rtype : ResultTypes, success : Payloads \cup {Nil}]

NoOutcome == [err |-> NoErr, rtype |-> NoType, success |-> Nil]
NoReturn == [resp |-> Nil, err |-> NoErr, panic |-> FALSE]

\* ret, _ := result.(*rrdb.Rrdb<Op>Result): the result itself when its dynamic type
\* is the asserted one, a nil pointer otherwise (the comma-ok form never panics)
TypeAssert(res, type) == IF res.rtype = type THEN res ELSE NoOutcome

\* ret.GetSuccess(): the Success field of the result (nil when it is not set); on a
\* nil receiver the getter either dereferences it and panics or yields nil
GetSuccess(r) ==
    IF r.rtype = NoType
      THEN {[resp |-> Nil, err |-> NoErr, panic |-> TRUE],
            [resp |-> Nil, err |-> NoErr, panic |-> FALSE]}
      ELSE {[resp |-> r.success, err |-> NoErr, panic |-> FALSE]}

\* a typed method without its `if err != nil` test: the error is dropped
TypedReturns_ErrUnchecked(op, res) ==
    IF op = "ClearScanner"
      THEN {[resp |-> Nil, err |-> NoErr, panic |-> FALSE]}
      ELSE GetSuccess(TypeAssert(res, ResultType(op)))

\* ClearScanner written like the other methods: it asserts the result type and calls
\* GetSuccess on the result
TypedReturns_ClearScannerExtracts(op, res) ==
    IF res.err # NoErr
      THEN {[resp |-> Nil, err |-> res.err, panic |-> FALSE]}
      ELSE GetSuccess(TypeAssert(res, ResultType(op)))

\* the statements of a typed method after callWithGpid has returned (result, err)
TypedReturns(op, res) ==
    IF res.err # NoErr
      THEN {[resp |-> Nil, err |-> res.err, panic |-> FALSE]}
      ELSE IF op = "ClearScanner"
             THEN {[resp |-> Nil, err |-> NoErr, panic |-> FALSE]}
             ELSE GetSuccess(TypeAssert(res, ResultType(op)))

FacadeInit ==
    /\ fpc = "idle"
    /\ fop = "none"
    /\ fgpid = <<0, 0>>
    /\ freq = <<>>
    /\ calls = <<>>
    /\ cres = NoOutcome
    /\ fret = NoReturn

\* a caller invokes rs.<op>(ctx, gpid, req...): the method builds args and issues
\* rs.callWithGpid(ctx, gpid, args, tag)
Invoke(op, gpid, req) ==
    /\ fpc \in {"idle", "done"}
    /\ fpc' = "calling"
    /\ fop' = op
    /\ fgpid' = gpid
    /\ freq' = req
    /\ calls' = <<[gpid |-> gpid, args |-> BuildArgs(op, req), tag |-> Tag(op)]>>
    /\ cres' = NoOutcome
    /\ fret' = NoReturn
    /\ UNCHANGED poolVars

\* callWithGpid returns (result, err)
CallReturns(out) ==
    /\ fpc = "calling"
    /\ cres' = out
    /\ fpc' = "got"
    /\ UNCHANGED <<fop, fgpid, freq, calls, fret>>
    /\ UNCHANGED poolVars

\* the method checks err, extracts the success payload and returns
MethodReturn ==
    /\ fpc = "got"
    /\ \E r \in TypedReturns(fop, cres) :
         /\ fret' = r
         /\ fpc' = IF r.panic THEN "panicked" ELSE "done"
    /\ UNCHANGED <<fop, fgpid, freq, calls, cres>>
    /\ UNCHANGED poolVars

FacadeNext ==
    \/ \E op \in Ops : \E gpid \in Gpids, req \in Requests(op) : Invoke(op, gpid, req)
    \/ \E out \in CallOutcomes : CallReturns(out)
    \/ MethodReturn

\* ---------------------------------------------------------- specification
Init == PoolInit /\ FacadeInit

Next ==
    \/ \E t \in Threads, a \in Addrs : GetReplicaCall(t, a)
    \/ \E t \in Threads : GetReplicaLock(t)
    \/ \E t \in Threads : GetReplicaLocked(t)
    \/ \E t \in Threads : GetReplicaCheck(t)
    \/ \E t \in Threads : GetReplicaInsert(t)
    \/ \E t \in Threads : GetReplicaReturn(t)
    \/ \E t \in Threads : GetReplicaUnlock(t)
    \/ \E t \in Threads : CloseCall(t)
    \/ \E t \in Threads : CloseLock(t)
    \/ \E t \in Threads : CloseLocked(t)
    \/ \E t \in Threads : CloseInitiate(t)
    \/ \E t \in Threads : CloseWait(t)
    \/ \E t \in Threads : CloseReturn(t)
    \/ \E t \in Threads : CloseUnlock(t)
    \/ \E r \in MapValues(replicas) : SessionCloseDone(r)
    \/ \E t \in Threads : ReplicaCountCall(t)
    \/ \E t \in Threads : ReplicaCountLock(t)
    \/ \E t \in Threads : ReplicaCountReturn(t)
    \/ \E t \in Threads : ReplicaCountUnlock(t)

Spec == Init /\ [][Next]_vars

FacadeSpec == Init /\ [][FacadeNext]_vars

\* fairness of the scheduler, the mutex and the transport: a thread inside a call
\* keeps running, a thread blocked in Lock()/RLock() gets the lock if it is free again
\* and again, and a session whose close was started fires its completion signal
Fairness ==
    /\ \A t \in Threads :
         /\ SF_vars(GetReplicaLock(t)) /\ SF_vars(CloseLock(t))
         /\ SF_vars(ReplicaCountLock(t))
         /\ WF_vars(GetReplicaLocked(t)) /\ WF_vars(GetReplicaCheck(t))
         /\ WF_vars(GetReplicaInsert(t)) /\ WF_vars(GetReplicaReturn(t))
         /\ WF_vars(GetReplicaUnlock(t))
         /\ WF_vars(CloseLocked(t)) /\ WF_vars(CloseInitiate(t))
         /\ WF_vars(CloseWait(t)) /\ WF_vars(CloseReturn(t))
         /\ WF_vars(CloseUnlock(t))
         /\ WF_vars(ReplicaCountReturn(t)) /\ WF_vars(ReplicaCountUnlock(t))
    /\ \A r \in 1..NumAddrs : WF_vars(SessionCloseDone(r))

LiveSpec == Spec /\ Fairness

\* ------------------------------------------------------------ properties
\* addresses for which some GetReplica call has completed
Registered == {a \in Addrs : returned[a] # {}}

\* C1: every GetReplica(a) that has ever returned, whatever ran in between, returned
\* the one session the map holds for a, and that session was constructed for a
OneSessionPerAddress ==
    \A a \in Addrs :
        /\ \A s1, s2 \in returned[a] : s1 = s2
        /\ \A s \in returned[a] : s = replicas[a] /\ sessions[s].addr = a
        /\ replicas[a] # NoSession => sessions[replicas[a]].addr = a

\* a second GetReplica(a) is returning, after a Close has closed the session, the
\* session an earlier GetReplica(a) returned
SameSessionAgain ==
    \E t \in Threads :
        /\ pc[t] = "gr_unlock" /\ ok[t]
        /\ ret[t].val \in returned[arg[t]]
        /\ sessions[ret[t].val].state = "closed"

\* C2: under every interleaving of GetReplica calls at most one session is ever
\* constructed for an address, and every call that returned got that one
CreateOnce ==
    \A a \in Addrs :
        /\ Constructed(a) <= 1
        /\ returned[a] # {} => Constructed(a) = 1
        /\ \A t \in Threads :
             (pc[t] = "gr_unlock" /\ arg[t] = a) =>
                 /\ ret[t].val # NoSession
                 /\ sessions[ret[t].val].addr = a

\* two threads are inside GetReplica for the same fresh address: one has constructed
\* the session and not returned yet, the other waits for the lock
RaceOnFreshAddress ==
    \E t1, t2 \in Threads :
        /\ t1 # t2
        /\ arg[t1] = arg[t2]
        /\ pc[t1] = "gr_ret" /\ ~ok[t1]
        /\ pc[t2] = "gr_lock"
        /\ returned[arg[t1]] = {}
        /\ Constructed(arg[t1]) = 1

\* C3: the value ReplicaCount returns is the number of distinct addresses for which a
\* GetReplica call has completed
CountIsRegistered ==
    \A t \in Threads :
        pc[t] = "rc_unlock" =>
            ret[t] = [op |-> "ReplicaCount", val |-> Cardinality(Registered)]

\* ReplicaCount returns 1 after an address was registered and looked up again
CountAfterRepeat ==
    \E t, u \in Threads :
        /\ pc[t] = "rc_unlock" /\ ret[t].val = 1
        /\ Cardinality(Registered) = 1
        /\ pc[u] = "gr_lock" /\ arg[u] \in Registered

\* C4: when Close is returning, the close of every session in the map has completed
CloseWaitsForAll ==
    \A t \in Threads :
        pc[t] = "cl_unlock" =>
            \A s \in MapValues(replicas) : sessions[s].state = "closed"

\* Close is returning from a pool of more than one session
CloseReturning ==
    \E t \in Threads :
        /\ pc[t] = "cl_unlock"
        /\ Cardinality(MapValues(replicas)) > 1
        /\ \A s \in MapValues(replicas) : sessions[s].state = "closed"

\* C5: a GetReplica call that began after Close was called constructs no session
CloseIsTerminal ==
    \A t \in Threads :
        (pc[t] \in {"gr_ret", "gr_unlock"} /\ afterClose[t]) => ok[t]

\* C6: a thread in Close that waits for a session's completion signal does not hold
\* the pool lock
CloseWaitsUnlocked ==
    \A t \in Threads :
        (pc[t] = "cl_wait" /\ ~SignalFired(cur[t])) => writer # t

\* C7: every pool call that has begun eventually returns
EveryCallReturns ==
    \A t \in Threads : (pc[t] # "idle") ~> (pc[t] = "idle")

\* Close waits for a signal that has not fired while another thread is blocked in
\* Lock() or RLock()
BlockedBehindClose ==
    \E t, u \in Threads :
        /\ pc[t] = "cl_wait" /\ ~SignalFired(cur[t])
        /\ pc[u] \in {"gr_lock", "cl_lock", "rc_lock"}

\* the operation tags as the wire contract lists them
WireTag ==
    [Get |-> "RPC_RRDB_RRDB_GET", Put |-> "RPC_RRDB_RRDB_PUT",
     Del |-> "RPC_RRDB_RRDB_REMOVE", MultiGet |-> "RPC_RRDB_RRDB_MULTI_GET",
     MultiSet |-> "RPC_RRDB_RRDB_MULTI_PUT",
     MultiDelete |-> "RPC_RRDB_RRDB_MULTI_REMOVE", TTL |-> "RPC_RRDB_RRDB_TTL",
     GetScanner |-> "RPC_RRDB_RRDB_GET_SCANNER", Scan |-> "RPC_RRDB_RRDB_SCAN",
     ClearScanner |-> "RPC_RRDB_RRDB_CLEAR_SCANNER"]

\* the method has come back to its caller
MethodOver == fpc \in {"done", "panicked"}

\* C8: an invoked typed method has issued exactly one generic call, with the caller's
\* gpid and request and the operation's wire tag; when the call came back without
\* error with the result type of the operation and its success set, the method
\* returned that success payload (nothing for ClearScanner) and a nil error
ForwardsExactly ==
    fpc # "idle" =>
        /\ Len(calls) = 1
        /\ calls[1].gpid = fgpid
        /\ calls[1].args.payload = freq
        /\ calls[1].tag = WireTag[fop]
        /\ (MethodOver /\ cres.err = NoErr /\ cres.rtype = ResultType(fop)
              /\ cres.success # Nil) =>
               fret = [resp |-> IF fop = "ClearScanner" THEN Nil ELSE cres.success,
                       err |-> NoErr, panic |-> FALSE]

\* MultiSet has returned the success payload of a matching result
MultiSetSucceeded ==
    /\ fpc = "done" /\ fop = "MultiSet"
    /\ cres.err = NoErr /\ cres.rtype = "RrdbMultiPutResult" /\ cres.success # Nil
    /\ fret.resp = cres.success

\* C9: when the generic call reported an error, the method returned that error and a
\* nil response, and issued no second call
ErrorPropagated ==
    (MethodOver /\ cres.err # NoErr) =>
        /\ fret = [resp |-> Nil, err |-> cres.err, panic |-> FALSE]
        /\ Len(calls) = 1

\* a typed method has returned the timeout its call reported
TimeoutReturned ==
    /\ fpc = "done" /\ cres.err = "timeout" /\ fret.err = "timeout"
    /\ fop \in {"Get", "ClearScanner"}

\* C10: when the call came back without error with a result of the expected type
\* whose success is not set, a payload-returning method returned a non-nil error and
\* no payload
AppFailureReported ==
    (MethodOver /\ fop # "ClearScanner" /\ cres.err = NoErr
       /\ cres.rtype = ResultType(fop) /\ cres.success = Nil) =>
        /\ fret.err # NoErr
        /\ fret.resp = Nil

\* C11: when the call came back without error with a result whose type is not the one
\* the method asserts, a payload-returning method returned an explicit error: it did
\* not panic and did not return a nil error
MismatchFailsLoudly ==
    (MethodOver /\ fop # "ClearScanner" /\ cres.err = NoErr
       /\ cres.rtype # ResultType(fop)) =>
        /\ ~fret.panic
        /\ fret.err # NoErr

\* C12: whatever the call came back with, a payload-returning method returned either
\* a response or an error, never neither and never both
ResponseXorError ==
    (MethodOver /\ fop # "ClearScanner") =>
        /\ ~fret.panic
        /\ (fret.resp # Nil) # (fret.err # NoErr)

\* C13: ClearScanner returned the error of its one call, nil when the call reported
\* none, and no payload, whatever result the call carried
ClearScannerErrorOnly ==
    (MethodOver /\ fop = "ClearScanner") =>
        /\ fret = [resp |-> Nil, err |-> cres.err, panic |-> FALSE]
        /\ Len(calls) = 1

\* ClearScanner has returned nil on a call that came back without error carrying a
\* result of another operation's type
ClearScannerIgnoredResult ==
    /\ fpc = "done" /\ fop = "ClearScanner"
    /\ cres.err = NoErr /\ cres.rtype = "RrdbGetResult" /\ cres.success # Nil
    /\ fret.err = NoErr

\* C14: when Close is returning and the close of some session in the map has failed,
\* the error Close returns is not nil
CloseReportsFailure ==
    \A t \in Threads :
        (pc[t] = "cl_unlock" /\ \E s \in MapValues(replicas) : sessions[s].failed) =>
            ret[t].val # 0

\* positions at which a thread is between acquiring and releasing the pool lock
GetReplicaSection == {"gr_check", "gr_insert", "gr_ret", "gr_unlock"}
CloseSection == {"cl_loop", "cl_wait", "cl_unlock"}
ReplicaCountSection == {"rc_read", "rc_unlock"}

\* C15: while a thread is inside the critical section of GetReplica or of Close, no
\* other thread is inside the critical section of any pool operation, and the lock
\* state says so: that thread is the writer and there are no readers
WritersExclude ==
    \A t \in Threads :
        pc[t] \in GetReplicaSection \cup CloseSection =>
            /\ writer = t
            /\ readers = {}
            /\ \A u \in Threads \ {t} :
                 pc[u] \notin GetReplicaSection \cup CloseSection \cup ReplicaCountSection

\* two ReplicaCount calls are inside their critical sections at the same time
ReadersOverlap ==
    \E t, u \in Threads :
        /\ t # u
        /\ pc[t] \in ReplicaCountSection /\ pc[u] \in ReplicaCountSection
        /\ readers = {t, u}

\* C16: a GetReplica call that found its address registered does not hold the pool
\* lock exclusively
LookupIsShared ==
    \A t \in Threads :
        (pc[t] \in {"gr_insert", "gr_ret", "gr_unlock"} /\ ok[t]) => writer # t

\* C17: while Close waits for the completion signal of one session, the close of
\* every other session of the loop has already been started
ClosesStartedTogether ==
    \A t \in Threads :
        (pc[t] = "cl_wait" /\ ~SignalFired(cur[t])) =>
            \A s \in todo[t] : sessions[s].state # "open"

\* C18: no step removes or replaces a map entry or lowers the map's length, no step
\* of Close changes the map, a closed session stays closed, and a GetReplica that
\* found its address registered returns the entry it found
EntriesKept ==
    [][/\ \A a \in Addrs : replicas[a] # NoSession => replicas'[a] = replicas[a]
       /\ MapLen(replicas') >= MapLen(replicas)
       /\ \A t \in Threads :
            (pc[t] \in {"cl_lock", "cl_drain"} \cup CloseSection /\ pc'[t] # pc[t]) =>
                replicas' = replicas
       /\ \A s \in 1..Len(sessions) :
            sessions[s].state = "closed" =>
                /\ Len(sessions') >= s
                /\ sessions'[s].state = "closed"
       /\ \A t \in Threads :
            (pc[t] = "gr_ret" /\ pc'[t] = "gr_unlock" /\ ok[t]) =>
                /\ ret'[t].val = replicas[arg[t]]
                /\ ret'[t].val \in returned[arg[t]]
      ]_vars

\* a GetReplica that began after Close was called is returning the session an earlier
\* call registered, which that Close has closed; the map still holds every entry
ClosedSessionReturned ==
    \E t \in Threads :
        /\ pc[t] = "gr_unlock" /\ ok[t] /\ afterClose[t]
        /\ sessions[ret[t].val].state = "closed"
        /\ MapLen(replicas) = Cardinality(Registered)
        /\ MapLen(replicas) > 1

\* C19: while Close runs its loop or is returning, no other thread is inside
\* GetReplica's critical section, and every session in the map is either still to be
\* visited by the loop, the one being waited for, or closed; when Close is returning
\* all of them are closed
CloseCoversMap ==
    \A t \in Threads :
        pc[t] \in CloseSection =>
            /\ \A u \in Threads \ {t} : pc[u] \notin GetReplicaSection
            /\ \A s \in MapValues(replicas) :
                 \/ s \in todo[t]
                 \/ sessions[s].state = "closed"
            /\ pc[t] = "cl_unlock" => todo[t] = {}

\* Close waits inside its loop while a GetReplica for an address that is not
\* registered waits for the lock
InsertWaitsForClose ==
    \E t, u \in Threads :
        /\ pc[t] = "cl_wait" /\ ~SignalFired(cur[t])
        /\ pc[u] \in {"gr_lock", "gr_drain"}
        /\ replicas[arg[u]] = NoSession

====
